---- MODULE Spec2Model ----
(***************************************************************************)
(* The circuit/witness registry of ceno_zkvm (src/ceno_zkvm/src/structs.rs) *)
(* as a state machine: ZKVMConstraintSystem, ZKVMFixedTraces, ZKVMWitnesses *)
(* and ZKVMProvingKey, one action per method.                               *)
(*                                                                           *)
(* A failed assert!/unwrap/expect is a panic.  A panic unwinds: the writes   *)
(* made before it stay in the object, and a caller that catches the unwind   *)
(* can go on using the object.  Every action therefore records its outcome   *)
(* in last_call and the next operation may follow a failed one.              *)
(***************************************************************************)
EXTENDS Integers, Sequences, FiniteSets, TLC

\* ------------------------------------------------------------------ bounds
\* Circuit names are identified with their rank in the lexicographic order
\* of the BTreeMap keys: 1..NumCircuitNames.
NumCircuitNames == 2
\* Lookup keys (u64) are 0..NumKeys-1.
NumKeys == 2
\* Longest batch of step records of one opcode circuit whose multiplicities
\* are merged.
MaxRecords == 2
\* Longest batch of step records given to one assign_opcode_circuit call
\* where the calls of setup and proving are interleaved.
MaxCallRecords == 1

\* ------------------------------------------------------- program constants
\* enum ROMType { U5 = 0, U16, And, Ltu }: the number of lookup tables, the
\* length of the vector LkMultiplicity::into_finalize_result returns.
NumROMTypes == 4

CircuitNames == 1..NumCircuitNames
Keys == 0..(NumKeys - 1)
ROMTypes == 1..NumROMTypes

\* ---------------------------------------------------------------- Option<T>
None == <<>>
Some(x) == <<x>>
is_none(o) == o = <<>>
is_some(o) == o # <<>>
unwrap(o) == o[1]

\* ----------------------------------------------------------- BTreeMap<K, V>
\* A map is a function whose DOMAIN is the set of keys present.
EmptyMap == <<>>
\* BTreeMap::insert: the value under key is replaced when the key is present.
map_insert(m, key, value) ==
    [x \in (DOMAIN m) \cup {key} |-> IF x = key THEN value ELSE m[x]]
\* What BTreeMap::insert returns: the value the key had before.
map_insert_old(m, key) == IF key \in DOMAIN m THEN Some(m[key]) ELSE None
\* BTreeMap::get
map_get(m, key) == IF key \in DOMAIN m THEN Some(m[key]) ELSE None

SetMin(S) == CHOOSE x \in S : \A y \in S : x <= y

VARIABLES
    circuit_css,           \* ZKVMConstraintSystem.circuit_css
    circuit_fixed_traces,  \* ZKVMFixedTraces.circuit_fixed_traces
    witnesses,             \* ZKVMWitnesses.witnesses
    lk_mlts,               \* ZKVMWitnesses.lk_mlts
    combined_lk_mlt,       \* ZKVMWitnesses.combined_lk_mlt
    circuit_pks,           \* ZKVMProvingKey.circuit_pks
    circuit_vks,           \* the ZKVMVerifyingKey get_vk returned, if any
    last_call,             \* the last method called and how it ended
    M,                     \* UInt<M, C, E>: the bit width of the gadget's type
    with_overflow,         \* the with_overflow argument of add / mul
    witness_values,        \* the witness row the constraints are evaluated on
    uint_c,                \* what the gadget returned and constrained, if called
    uints,                 \* the UInts built on the builder: limbs' state, carries
    circuit_builder        \* the builder's cells and equality constraints, counted

\* The state of the UInt gadget.
uint_vars == <<M, with_overflow, witness_values, uint_c, uints, circuit_builder>>

vars == <<circuit_css, circuit_fixed_traces, witnesses, lk_mlts,
          combined_lk_mlt, circuit_pks, circuit_vks, last_call, uint_vars>>

\* CircuitBuilder::new(&mut cs) on a fresh ConstraintSystem, no UInt built.
BuilderDefault ==
    /\ uints = <<>>
    /\ circuit_builder = [num_witin |-> 0, new_witin_equal_expr |-> 0]

\* No gadget built: what the registry's specifications hold these at.
UIntDefault ==
    /\ M = 1
    /\ with_overflow = FALSE
    /\ witness_values = <<>>
    /\ uint_c = None
    /\ BuilderDefault

\* How a call ends: "ok" (returned, Ok(()) where there is a Result),
\* "err" (returned Err) or "panic" (an assert!, unwrap or expect failed).
Outcome(op, name, result) == [op |-> op, name |-> name, result |-> result]

\* ------------------------------------------------------------ circuit types
\* OC: Instruction<E> and TC: TableCircuit<E> are type parameters.  Any name
\* may be the name() of an opcode circuit and of a table circuit.
OpcodeCircuits == {[kind |-> "opcode", name |-> n] : n \in CircuitNames}
TableCircuits == {[kind |-> "table", name |-> n] : n \in CircuitNames}

\* ConstraintSystem::new(|| format!("riscv_opcode/{}", OC::name())) followed
\* by OC::construct_circuit: the constraint system of the circuit.  The
\* column counts stand for what the circuit's own construct_circuit declares;
\* they differ between the opcode and the table circuit of one name.
construct_circuit(c) ==
    IF c.kind = "opcode"
    THEN [ns |-> "riscv_opcode", name |-> c.name,
          num_witin |-> c.name + 1, num_fixed |-> 0]
    ELSE [ns |-> "riscv_table", name |-> c.name,
          num_witin |-> 1, num_fixed |-> c.name]

\* ------------------------------------------------------------- step records
\* A StepRecord is taken by the lookup it makes: table rom, key key.
StepRecords == [rom : ROMTypes, key : Keys]
RecordIndex(r) == (r.rom - 1) * NumKeys + r.key
\* Vec<StepRecord> of at most MaxRecords records, up to reordering.
Batches ==
    {b \in UNION {[1..n -> StepRecords] : n \in 0..MaxRecords} :
        \A i \in 1..(Len(b) - 1) : RecordIndex(b[i]) <= RecordIndex(b[i + 1])}

CallBatches == {b \in Batches : Len(b) <= MaxCallRecords}

\* LkMultiplicity::into_finalize_result of the multiplicities OC::assign_instances
\* counted over records: per table, key |-> number of lookups of the key.
lk_multiplicity(records) ==
    [t \in ROMTypes |->
        [k \in {records[i].key : i \in {j \in 1..Len(records) : records[j].rom = t}} |->
            Cardinality({i \in 1..Len(records) :
                            records[i].rom = t /\ records[i].key = k})]]

\* OC::assign_instances(config, num_witin, records): the witness matrix, one
\* row per record and num_witin columns, and the multiplicities.
opcode_assign_instances(oc, num_witin, records) ==
    [witness |-> [kind |-> "opcode", circuit |-> oc.name,
                  num_witin |-> num_witin, num_instances |-> Len(records)],
     logup_multiplicity |-> lk_multiplicity(records)]

\* TC::assign_instances(config, num_witin, multiplicity): the witness matrix
\* of a table circuit holds the multiplicities it was given.
table_assign_instances(tc, num_witin, multiplicity) ==
    [kind |-> "table", circuit |-> tc.name,
     num_witin |-> num_witin, multiplicity |-> multiplicity]

\* ------------------------------------------------------------- ZKVMWitnesses
\* assign_opcode_circuit without assert!(self.combined_lk_mlt.is_none()).
assign_opcode_circuit_unguarded(oc, cs, records, ok) ==
    LET name == oc.name
        op == "assign_opcode_circuit"
    IN  /\ UNCHANGED <<uint_vars, circuit_css, circuit_fixed_traces, circuit_pks,
                       circuit_vks, combined_lk_mlt>>
        /\ IF is_none(map_get(cs, name))
           THEN /\ last_call' = Outcome(op, name, "panic")
                /\ UNCHANGED <<witnesses, lk_mlts>>
           ELSE IF ~ok
           THEN /\ last_call' = Outcome(op, name, "err")
                /\ UNCHANGED <<witnesses, lk_mlts>>
           ELSE LET res == opcode_assign_instances(
                               oc, unwrap(map_get(cs, name)).num_witin, records)
                IN  /\ witnesses' = map_insert(witnesses, name, res.witness)
                    /\ IF ~is_none(map_insert_old(witnesses, name))
                       THEN /\ last_call' = Outcome(op, name, "panic")
                            /\ UNCHANGED lk_mlts
                       ELSE /\ lk_mlts' = map_insert(lk_mlts, name,
                                                     res.logup_multiplicity)
                            /\ last_call' =
                                 Outcome(op, name,
                                    IF is_none(map_insert_old(lk_mlts, name))
                                    THEN "ok" ELSE "panic")

\* assign_opcode_circuit::<OC>(cs, config, records); ok: whether
\* OC::assign_instances returns Ok.
assign_opcode_circuit(oc, cs, records, ok) ==
    LET name == oc.name
        op == "assign_opcode_circuit"
    IN  /\ UNCHANGED <<uint_vars, circuit_css, circuit_fixed_traces, circuit_pks,
                       circuit_vks, combined_lk_mlt>>
        /\ IF ~is_none(combined_lk_mlt) \/ is_none(map_get(cs, name))
           THEN \* assert!(self.combined_lk_mlt.is_none()); get_cs(..).unwrap()
                /\ last_call' = Outcome(op, name, "panic")
                /\ UNCHANGED <<witnesses, lk_mlts>>
           ELSE IF ~ok
           THEN \* OC::assign_instances(..)?
                /\ last_call' = Outcome(op, name, "err")
                /\ UNCHANGED <<witnesses, lk_mlts>>
           ELSE LET res == opcode_assign_instances(
                               oc, unwrap(map_get(cs, name)).num_witin, records)
                IN  /\ witnesses' = map_insert(witnesses, name, res.witness)
                    /\ IF ~is_none(map_insert_old(witnesses, name))
                       THEN \* assert!(self.witnesses.insert(..).is_none())
                            /\ last_call' = Outcome(op, name, "panic")
                            /\ UNCHANGED lk_mlts
                       ELSE /\ lk_mlts' = map_insert(lk_mlts, name,
                                                     res.logup_multiplicity)
                            /\ last_call' =
                                 Outcome(op, name,
                                    IF is_none(map_insert_old(lk_mlts, name))
                                    THEN "ok" ELSE "panic")

\* merge_entries with or_insert(*value) for or_insert(0): a key new to m1 is
\* counted twice.
RECURSIVE merge_entries_twice(_, _, _)
merge_entries_twice(m1, m2, todo) ==
    IF todo = {} THEN m1
    ELSE LET key == CHOOSE k \in todo : TRUE
             old == IF key \in DOMAIN m1 THEN m1[key] ELSE m2[key]
         IN  merge_entries_twice(map_insert(m1, key, old + m2[key]), m2, todo \ {key})

\* merge_entries with m1.insert(*key, *value): the later circuit's count
\* replaces the earlier one.
RECURSIVE merge_entries_overwrite(_, _, _)
merge_entries_overwrite(m1, m2, todo) ==
    IF todo = {} THEN m1
    ELSE LET key == CHOOSE k \in todo : TRUE
         IN  merge_entries_overwrite(map_insert(m1, key, m2[key]), m2, todo \ {key})

\* for (key, value) in m2 { *m1.entry(*key).or_insert(0) += value; }
RECURSIVE merge_entries(_, _, _)
merge_entries(m1, m2, todo) ==
    IF todo = {} THEN m1
    ELSE LET key == CHOOSE k \in todo : TRUE
             old == IF key \in DOMAIN m1 THEN m1[key] ELSE 0
         IN  merge_entries(map_insert(m1, key, old + m2[key]), m2, todo \ {key})

\* The body of the loop over the circuit names: the first circuit's tables
\* are copied, every later circuit's tables are added table by table
\* (zip_eq: both vectors have NumROMTypes entries).
merge_lk_mlt(combined, lk_mlt) ==
    IF combined = <<>>
    THEN lk_mlt
    ELSE [t \in 1..Len(combined) |->
            merge_entries(combined[t], lk_mlt[t], DOMAIN lk_mlt[t])]

\* for name in keys { .. }: the names in the order of the BTreeMap's keys.
RECURSIVE merge_all(_, _, _)
merge_all(mlts, names, combined) ==
    IF names = {} THEN combined
    ELSE LET name == SetMin(names)
         IN  merge_all(mlts, names \ {name}, merge_lk_mlt(combined, mlts[name]))

\* finalize_lk_multiplicities without its two asserts.
finalize_lk_multiplicities_unguarded ==
    /\ UNCHANGED <<uint_vars, circuit_css, circuit_fixed_traces, circuit_pks,
                   circuit_vks, witnesses>>
    /\ lk_mlts' = EmptyMap
    /\ combined_lk_mlt' = Some(merge_all(lk_mlts, DOMAIN lk_mlts, <<>>))
    /\ last_call' = Outcome("finalize_lk_multiplicities", 0, "ok")

\* finalize_lk_multiplicities without assert!(!self.lk_mlts.is_empty()).
finalize_lk_multiplicities_may_be_empty ==
    LET op == "finalize_lk_multiplicities"
    IN  /\ UNCHANGED <<uint_vars, circuit_css, circuit_fixed_traces, circuit_pks,
                       circuit_vks, witnesses>>
        /\ IF ~is_none(combined_lk_mlt)
           THEN /\ last_call' = Outcome(op, 0, "panic")
                /\ UNCHANGED <<lk_mlts, combined_lk_mlt>>
           ELSE /\ lk_mlts' = EmptyMap
                /\ combined_lk_mlt' = Some(merge_all(lk_mlts, DOMAIN lk_mlts, <<>>))
                /\ last_call' = Outcome(op, 0, "ok")

finalize_lk_multiplicities ==
    LET op == "finalize_lk_multiplicities"
    IN  /\ UNCHANGED <<uint_vars, circuit_css, circuit_fixed_traces, circuit_pks,
                       circuit_vks, witnesses>>
        /\ IF ~is_none(combined_lk_mlt) \/ lk_mlts = EmptyMap
           THEN \* assert!(self.combined_lk_mlt.is_none());
                \* assert!(!self.lk_mlts.is_empty());
                /\ last_call' = Outcome(op, 0, "panic")
                /\ UNCHANGED <<lk_mlts, combined_lk_mlt>>
           ELSE \* every name is removed from lk_mlts as it is merged
                /\ lk_mlts' = EmptyMap
                /\ combined_lk_mlt' = Some(merge_all(lk_mlts, DOMAIN lk_mlts, <<>>))
                /\ last_call' = Outcome(op, 0, "ok")

\* assign_table_circuit with self.combined_lk_mlt.clone().unwrap_or_default()
\* for the assert and the unwrap: an absent table is taken as an empty one.
assign_table_circuit_or_default(tc, cs, ok) ==
    LET name == tc.name
        op == "assign_table_circuit"
    IN  /\ UNCHANGED <<uint_vars, circuit_css, circuit_fixed_traces, circuit_pks,
                       circuit_vks, lk_mlts, combined_lk_mlt>>
        /\ IF is_none(map_get(cs, name))
           THEN /\ last_call' = Outcome(op, name, "panic")
                /\ UNCHANGED witnesses
           ELSE IF ~ok
           THEN /\ last_call' = Outcome(op, name, "err")
                /\ UNCHANGED witnesses
           ELSE /\ witnesses' =
                     map_insert(witnesses, name,
                        table_assign_instances(
                            tc, unwrap(map_get(cs, name)).num_witin,
                            IF is_none(combined_lk_mlt) THEN <<>>
                            ELSE unwrap(combined_lk_mlt)))
                /\ last_call' =
                     Outcome(op, name,
                        IF is_none(map_insert_old(witnesses, name))
                        THEN "ok" ELSE "panic")

\* assign_table_circuit with self.combined_lk_mlt.take().unwrap(): the table
\* is moved out of the registry by the first table circuit.
assign_table_circuit_take(tc, cs, ok) ==
    LET name == tc.name
        op == "assign_table_circuit"
    IN  /\ UNCHANGED <<uint_vars, circuit_css, circuit_fixed_traces, circuit_pks,
                       circuit_vks, lk_mlts>>
        /\ IF is_none(combined_lk_mlt) \/ is_none(map_get(cs, name))
           THEN /\ last_call' = Outcome(op, name, "panic")
                /\ UNCHANGED <<witnesses, combined_lk_mlt>>
           ELSE /\ combined_lk_mlt' = None
                /\ IF ~ok
                   THEN /\ last_call' = Outcome(op, name, "err")
                        /\ UNCHANGED witnesses
                   ELSE /\ witnesses' =
                             map_insert(witnesses, name,
                                table_assign_instances(
                                    tc, unwrap(map_get(cs, name)).num_witin,
                                    unwrap(combined_lk_mlt)))
                        /\ last_call' =
                             Outcome(op, name,
                                IF is_none(map_insert_old(witnesses, name))
                                THEN "ok" ELSE "panic")

\* assign_table_circuit::<TC>(cs, config); ok: whether TC::assign_instances
\* returns Ok.
assign_table_circuit(tc, cs, ok) ==
    LET name == tc.name
        op == "assign_table_circuit"
    IN  /\ UNCHANGED <<uint_vars, circuit_css, circuit_fixed_traces, circuit_pks,
                       circuit_vks, lk_mlts, combined_lk_mlt>>
        /\ IF is_none(combined_lk_mlt) \/ is_none(map_get(cs, name))
           THEN \* assert!(self.combined_lk_mlt.is_some()); get_cs(..).unwrap()
                /\ last_call' = Outcome(op, name, "panic")
                /\ UNCHANGED witnesses
           ELSE IF ~ok
           THEN \* TC::assign_instances(..)?
                /\ last_call' = Outcome(op, name, "err")
                /\ UNCHANGED witnesses
           ELSE /\ witnesses' =
                     map_insert(witnesses, name,
                        table_assign_instances(
                            tc, unwrap(map_get(cs, name)).num_witin,
                            unwrap(combined_lk_mlt)))
                /\ last_call' =
                     Outcome(op, name,
                        IF is_none(map_insert_old(witnesses, name))
                        THEN "ok" ELSE "panic")

\* ------------------------------------------------------ ZKVMConstraintSystem
\* register_opcode_circuit with a bare self.circuit_css.insert(..): the
\* value insert returns is not looked at.
cs_register_opcode_circuit_unchecked(oc, built) ==
    LET name == oc.name
        op == "cs_register_opcode_circuit"
    IN  /\ UNCHANGED <<uint_vars, circuit_fixed_traces, witnesses, lk_mlts, combined_lk_mlt,
                       circuit_pks, circuit_vks>>
        /\ IF ~built
           THEN /\ last_call' = Outcome(op, name, "panic")
                /\ UNCHANGED circuit_css
           ELSE /\ circuit_css' = map_insert(circuit_css, name, construct_circuit(oc))
                /\ last_call' = Outcome(op, name, "ok")

\* register_opcode_circuit::<OC>(); built: whether OC::construct_circuit
\* returns Ok.
cs_register_opcode_circuit(oc, built) ==
    LET name == oc.name
        op == "cs_register_opcode_circuit"
    IN  /\ UNCHANGED <<uint_vars, circuit_fixed_traces, witnesses, lk_mlts, combined_lk_mlt,
                       circuit_pks, circuit_vks>>
        /\ IF ~built
           THEN \* OC::construct_circuit(&mut circuit_builder).unwrap()
                /\ last_call' = Outcome(op, name, "panic")
                /\ UNCHANGED circuit_css
           ELSE \* assert!(self.circuit_css.insert(OC::name(), cs).is_none())
                /\ circuit_css' = map_insert(circuit_css, name, construct_circuit(oc))
                /\ last_call' =
                     Outcome(op, name,
                        IF is_none(map_insert_old(circuit_css, name))
                        THEN "ok" ELSE "panic")

\* register_table_circuit::<TC>(); built: whether TC::construct_circuit
\* returns Ok.
cs_register_table_circuit(tc, built) ==
    LET name == tc.name
        op == "cs_register_table_circuit"
    IN  /\ UNCHANGED <<uint_vars, circuit_fixed_traces, witnesses, lk_mlts, combined_lk_mlt,
                       circuit_pks, circuit_vks>>
        /\ IF ~built
           THEN \* TC::construct_circuit(&mut circuit_builder).unwrap()
                /\ last_call' = Outcome(op, name, "panic")
                /\ UNCHANGED circuit_css
           ELSE \* assert!(self.circuit_css.insert(TC::name(), cs.clone()).is_none())
                /\ circuit_css' = map_insert(circuit_css, name, construct_circuit(tc))
                /\ last_call' =
                     Outcome(op, name,
                        IF is_none(map_insert_old(circuit_css, name))
                        THEN "ok" ELSE "panic")

\* ----------------------------------------------------------- ZKVMFixedTraces
\* TC::generate_fixed_traces(&config, num_fixed): the fixed matrix of the
\* table circuit, num_fixed columns wide.
generate_fixed_traces(tc, num_fixed) == [table |-> tc.name, num_fixed |-> num_fixed]

\* register_opcode_circuit::<OC>(_cs)
ft_register_opcode_circuit(oc, cs) ==
    LET name == oc.name
        op == "ft_register_opcode_circuit"
    IN  /\ UNCHANGED <<uint_vars, circuit_css, witnesses, lk_mlts, combined_lk_mlt,
                       circuit_pks, circuit_vks>>
        \* assert!(self.circuit_fixed_traces.insert(OC::name(), None).is_none())
        /\ circuit_fixed_traces' = map_insert(circuit_fixed_traces, name, None)
        /\ last_call' =
             Outcome(op, name,
                IF is_none(map_insert_old(circuit_fixed_traces, name))
                THEN "ok" ELSE "panic")

\* register_table_circuit with cs.num_witin for cs.num_fixed.
ft_register_table_circuit_num_witin(tc, cs) ==
    LET name == tc.name
        op == "ft_register_table_circuit"
    IN  /\ UNCHANGED <<uint_vars, circuit_css, witnesses, lk_mlts, combined_lk_mlt,
                       circuit_pks, circuit_vks>>
        /\ IF is_none(map_get(cs, name))
           THEN /\ last_call' = Outcome(op, name, "panic")
                /\ UNCHANGED circuit_fixed_traces
           ELSE /\ circuit_fixed_traces' =
                     map_insert(circuit_fixed_traces, name,
                        Some(generate_fixed_traces(
                                tc, unwrap(map_get(cs, name)).num_witin)))
                /\ last_call' =
                     Outcome(op, name,
                        IF is_none(map_insert_old(circuit_fixed_traces, name))
                        THEN "ok" ELSE "panic")

\* register_table_circuit::<TC>(cs, config)
ft_register_table_circuit(tc, cs) ==
    LET name == tc.name
        op == "ft_register_table_circuit"
    IN  /\ UNCHANGED <<uint_vars, circuit_css, witnesses, lk_mlts, combined_lk_mlt,
                       circuit_pks, circuit_vks>>
        /\ IF is_none(map_get(cs, name))
           THEN \* cs.get_cs(&TC::name()).expect("cs not found")
                /\ last_call' = Outcome(op, name, "panic")
                /\ UNCHANGED circuit_fixed_traces
           ELSE \* assert!(self.circuit_fixed_traces.insert(.., Some(..)).is_none())
                /\ circuit_fixed_traces' =
                     map_insert(circuit_fixed_traces, name,
                        Some(generate_fixed_traces(
                                tc, unwrap(map_get(cs, name)).num_fixed)))
                /\ last_call' =
                     Outcome(op, name,
                        IF is_none(map_insert_old(circuit_fixed_traces, name))
                        THEN "ok" ELSE "panic")

\* ------------------------------------------------------------ ZKVMProvingKey
\* get_vk_map with .skip(1): the first proving key is left out.
get_vk_map_skip(pks) ==
    [name \in {n \in DOMAIN pks : \E m \in DOMAIN pks : m < n} |-> pks[name].vk]

\* self.circuit_pks.iter().map(|(name, pk)| (name.clone(), pk.vk.clone())).collect()
get_vk_map(pks) == [name \in DOMAIN pks |-> pks[name].vk]

\* get_vk(&self) -> ZKVMVerifyingKey
get_vk ==
    /\ UNCHANGED <<uint_vars, circuit_css, circuit_fixed_traces, witnesses, lk_mlts,
                   combined_lk_mlt, circuit_pks>>
    /\ circuit_vks' = Some([circuit_vks |-> get_vk_map(circuit_pks)])
    /\ last_call' = Outcome("get_vk", 0, "ok")

\* ------------------------------------------------------------ specification
Init ==
    /\ circuit_css = EmptyMap
    /\ circuit_fixed_traces = EmptyMap
    /\ witnesses = EmptyMap
    /\ lk_mlts = EmptyMap
    /\ combined_lk_mlt = None
    /\ circuit_pks = EmptyMap
    /\ circuit_vks = None
    /\ last_call = Outcome("default", 0, "ok")
    /\ UIntDefault

\* Setup and proving: the circuits are registered in the one
\* ZKVMConstraintSystem, which every ZKVMWitnesses call is given.
Next ==
    \/ \E oc \in OpcodeCircuits, built \in BOOLEAN :
          cs_register_opcode_circuit(oc, built)
    \/ \E tc \in TableCircuits, built \in BOOLEAN :
          cs_register_table_circuit(tc, built)
    \/ \E oc \in OpcodeCircuits, records \in CallBatches, ok \in BOOLEAN :
          assign_opcode_circuit(oc, circuit_css, records, ok)
    \/ finalize_lk_multiplicities
    \/ \E tc \in TableCircuits, ok \in BOOLEAN :
          assign_table_circuit(tc, circuit_css, ok)

Spec == Init /\ [][Next]_vars

\* Setup alone: the circuits are registered in the ZKVMConstraintSystem and
\* their fixed traces in the ZKVMFixedTraces, which is given the former.
NextSetup ==
    \/ \E oc \in OpcodeCircuits, built \in BOOLEAN :
          cs_register_opcode_circuit(oc, built)
    \/ \E tc \in TableCircuits, built \in BOOLEAN :
          cs_register_table_circuit(tc, built)
    \/ \E oc \in OpcodeCircuits : ft_register_opcode_circuit(oc, circuit_css)
    \/ \E tc \in TableCircuits : ft_register_table_circuit(tc, circuit_css)

SpecSetup == Init /\ [][NextSetup]_vars

\* The three registries together, every call given the one
\* ZKVMConstraintSystem; the opcode circuits are assigned empty batches.
NextRegistry ==
    \/ \E oc \in OpcodeCircuits, built \in BOOLEAN :
          cs_register_opcode_circuit(oc, built)
    \/ \E tc \in TableCircuits, built \in BOOLEAN :
          cs_register_table_circuit(tc, built)
    \/ \E oc \in OpcodeCircuits : ft_register_opcode_circuit(oc, circuit_css)
    \/ \E tc \in TableCircuits : ft_register_table_circuit(tc, circuit_css)
    \/ \E oc \in OpcodeCircuits, ok \in BOOLEAN :
          assign_opcode_circuit(oc, circuit_css, <<>>, ok)
    \/ finalize_lk_multiplicities
    \/ \E tc \in TableCircuits, ok \in BOOLEAN :
          assign_table_circuit(tc, circuit_css, ok)

SpecRegistry == Init /\ [][NextRegistry]_vars

\* The merge: the registry as the successful assignment of any batches to
\* the opcode circuits of any names leaves it, every name registered, then
\* finalization and the table circuits.
InitMerge ==
    \E S \in SUBSET CircuitNames : \E batches \in [S -> Batches] :
        /\ circuit_css =
             [n \in CircuitNames |->
                construct_circuit([kind |-> IF n \in S THEN "opcode" ELSE "table",
                                   name |-> n])]
        /\ circuit_fixed_traces = EmptyMap
        /\ witnesses =
             [n \in S |->
                opcode_assign_instances([kind |-> "opcode", name |-> n],
                                        circuit_css[n].num_witin, batches[n]).witness]
        /\ lk_mlts =
             [n \in S |->
                opcode_assign_instances([kind |-> "opcode", name |-> n],
                                        circuit_css[n].num_witin,
                                        batches[n]).logup_multiplicity]
        /\ combined_lk_mlt = None
        /\ circuit_pks = EmptyMap
        /\ circuit_vks = None
        /\ last_call = Outcome("default", 0, "ok")
        /\ UIntDefault
    /\ UIntDefault

NextMerge ==
    \/ finalize_lk_multiplicities
    \/ \E tc \in TableCircuits, ok \in BOOLEAN :
          assign_table_circuit(tc, circuit_css, ok)

SpecMerge == InitMerge /\ [][NextMerge]_vars

\* ProvingKey { fixed_traces, vk: VerifyingKey { cs } }: the values of the
\* struct over the constraint systems and fixed matrices of the circuits.
ProvingKeys ==
    {[fixed_traces |-> ft, vk |-> [cs |-> construct_circuit(c)]] :
        c \in OpcodeCircuits \cup TableCircuits,
        ft \in {None} \cup {Some(generate_fixed_traces(tc, tc.name)) : tc \in TableCircuits}}

\* A ZKVMProvingKey holding any proving key under any of the names.
InitKeys ==
    /\ circuit_css = EmptyMap
    /\ circuit_fixed_traces = EmptyMap
    /\ witnesses = EmptyMap
    /\ lk_mlts = EmptyMap
    /\ combined_lk_mlt = None
    /\ circuit_pks \in UNION {[S -> ProvingKeys] : S \in SUBSET CircuitNames}
    /\ circuit_vks = None
    /\ last_call = Outcome("default", 0, "ok")
    /\ UIntDefault

NextKeys == get_vk

SpecKeys == InitKeys /\ [][NextKeys]_vars

\* =================================================================== claims
IsOp(call, op) == call.op = op
TableWitnessNames(w) == {n \in DOMAIN w : w[n].kind = "table"}
OpcodeWitnessNames(w) == {n \in DOMAIN w : w[n].kind = "opcode"}

\* C1: assign_table_circuit called while the combined multiplicity table does
\* not exist panics, and no table-circuit witness is ever present in a state
\* where the combined table is absent.
Thm_C1 ==
    /\ (IsOp(last_call, "assign_table_circuit") /\ is_none(combined_lk_mlt))
          => last_call.result = "panic"
    /\ is_none(combined_lk_mlt) => TableWitnessNames(witnesses) = {}

\* C1 happens: a table circuit whose constraint system is registered was
\* assigned before finalization, while opcode witnesses were already there.
Witness_C1 ==
    /\ IsOp(last_call, "assign_table_circuit")
    /\ last_call.result = "panic"
    /\ is_none(combined_lk_mlt)
    /\ last_call.name \in DOMAIN circuit_css
    /\ last_call.name \notin DOMAIN witnesses
    /\ OpcodeWitnessNames(witnesses) # {}

\* C2: once the combined table exists, assign_opcode_circuit panics, and no
\* opcode witness and no per-circuit multiplicity is added.
Thm_C2 ==
    [][is_some(combined_lk_mlt) =>
          /\ IsOp(last_call', "assign_opcode_circuit") =>
                (last_call'.result = "panic" /\ witnesses' = witnesses)
          /\ lk_mlts' = lk_mlts
          /\ \A n \in OpcodeWitnessNames(witnesses') :
                n \in DOMAIN witnesses /\ witnesses'[n] = witnesses[n]]_vars

\* C2 happens: an opcode circuit whose constraint system is registered and
\* which has no witness yet was assigned after finalization.
Witness_C2 ==
    /\ IsOp(last_call, "assign_opcode_circuit")
    /\ last_call.result = "panic"
    /\ is_some(combined_lk_mlt)
    /\ last_call.name \in DOMAIN circuit_css
    /\ last_call.name \notin DOMAIN witnesses

\* C3: finalize_lk_multiplicities succeeds at most once: it succeeds only
\* when the combined table is absent, the table once present stays present,
\* and a call made when it is present panics.
Thm_C3 ==
    [][/\ is_some(combined_lk_mlt) => is_some(combined_lk_mlt')
       /\ (IsOp(last_call', "finalize_lk_multiplicities") /\ is_some(combined_lk_mlt))
             => last_call'.result = "panic"]_vars

\* C3 happens: finalize was called a second time and panicked.
Witness_C3 ==
    /\ IsOp(last_call, "finalize_lk_multiplicities")
    /\ last_call.result = "panic"
    /\ is_some(combined_lk_mlt)

\* C4: finalize_lk_multiplicities called while lk_mlts is empty panics and
\* leaves the combined table as it was (absent, before any finalization).
Thm_C4 ==
    [][(IsOp(last_call', "finalize_lk_multiplicities") /\ lk_mlts = EmptyMap)
          => (last_call'.result = "panic" /\ combined_lk_mlt' = combined_lk_mlt)]_vars

\* C4 happens: finalize was called with no opcode circuit assigned.
Witness_C4 ==
    /\ IsOp(last_call, "finalize_lk_multiplicities")
    /\ last_call.result = "panic"
    /\ is_none(combined_lk_mlt)
    /\ lk_mlts = EmptyMap

\* The sum over the circuits in names of the multiplicity of key k in table t.
RECURSIVE SumOver(_, _, _, _)
SumOver(mlts, names, t, k) ==
    IF names = {} THEN 0
    ELSE LET n == CHOOSE x \in names : TRUE
         IN  (IF k \in DOMAIN mlts[n][t] THEN mlts[n][t][k] ELSE 0)
                + SumOver(mlts, names \ {n}, t, k)

\* C6: a successful finalize makes combined[t][k] the sum, over the opcode
\* circuits assigned before it (those in lk_mlts), of the circuit's
\* multiplicity of (t, k); a key no circuit has is absent from combined[t].
Thm_C6 ==
    [][(IsOp(last_call', "finalize_lk_multiplicities") /\ last_call'.result = "ok")
          => /\ is_some(combined_lk_mlt')
             /\ LET c == unwrap(combined_lk_mlt')
                IN  /\ DOMAIN c = ROMTypes
                    /\ \A t \in ROMTypes :
                         /\ DOMAIN c[t] =
                              {k \in Keys : \E n \in DOMAIN lk_mlts :
                                               k \in DOMAIN lk_mlts[n][t]}
                         /\ \A k \in DOMAIN c[t] :
                              c[t][k] = SumOver(lk_mlts, DOMAIN lk_mlts, t, k)]_vars

\* Under Spec: lk_mlts holds exactly the multiplicities of the opcode circuits
\* assigned with success since construction, until finalize drains it.
LkMltsAreTheAssigned ==
    [][/\ (IsOp(last_call', "assign_opcode_circuit") /\ last_call'.result = "ok")
            => /\ last_call'.name \notin DOMAIN lk_mlts
               /\ \E records \in Batches :
                    /\ records \in CallBatches
                    /\ lk_mlts' = map_insert(lk_mlts, last_call'.name,
                                             lk_multiplicity(records))
                    /\ witnesses'[last_call'.name].num_instances = Len(records)
       /\ (last_call'.result # "ok"
             \/ ~(IsOp(last_call', "assign_opcode_circuit")
                    \/ IsOp(last_call', "finalize_lk_multiplicities")))
            => lk_mlts' = lk_mlts]_vars

\* C6 happens: two circuits of two records each were merged; one key was
\* looked up three times in all, another key of the same table once, and a
\* table was not looked up at all.
Witness_C6 ==
    /\ IsOp(last_call, "finalize_lk_multiplicities")
    /\ last_call.result = "ok"
    /\ Cardinality(OpcodeWitnessNames(witnesses)) >= 2
    /\ \A n \in OpcodeWitnessNames(witnesses) : witnesses[n].num_instances = 2
    /\ \E t \in ROMTypes : \E k, j \in DOMAIN unwrap(combined_lk_mlt)[t] :
          unwrap(combined_lk_mlt)[t][k] = 3 /\ unwrap(combined_lk_mlt)[t][j] = 1
    /\ \E t \in ROMTypes : unwrap(combined_lk_mlt)[t] = EmptyMap

\* The orders in which the circuits of S can be taken.
Orders(S) ==
    {o \in [1..Cardinality(S) -> S] : \A i, j \in DOMAIN o : o[i] = o[j] => i = j}

\* The loop of finalize_lk_multiplicities run over the circuits in order o.
RECURSIVE MergeInOrder(_, _, _, _)
MergeInOrder(mlts, o, i, combined) ==
    IF i > Len(o) THEN combined
    ELSE MergeInOrder(mlts, o, i + 1, merge_lk_mlt(combined, mlts[o[i]]))

\* C7: the combined table a successful finalize produces is the one the
\* merge gives in every order of the assigned circuits.
Thm_C7 ==
    [][(IsOp(last_call', "finalize_lk_multiplicities") /\ last_call'.result = "ok")
          => \A o \in Orders(DOMAIN lk_mlts) :
                combined_lk_mlt' = Some(MergeInOrder(lk_mlts, o, 1, <<>>))]_vars

\* C7 happens: two circuits, one of one record and one of two, looking the
\* same key up a different number of times, were merged.
Witness_C7 ==
    /\ IsOp(last_call, "finalize_lk_multiplicities")
    /\ last_call.result = "ok"
    /\ \E t \in ROMTypes : \E k \in DOMAIN unwrap(combined_lk_mlt)[t] :
          unwrap(combined_lk_mlt)[t][k] = 3
    /\ \E n, m \in OpcodeWitnessNames(witnesses) :
          witnesses[n].num_instances = 1 /\ witnesses[m].num_instances = 2

\* C10: once the combined table exists no operation changes it, and every
\* table witness holds the very table that is there.
Thm_C10 ==
    [][/\ is_some(combined_lk_mlt) => combined_lk_mlt' = combined_lk_mlt
       /\ \A n \in TableWitnessNames(witnesses') :
             /\ is_some(combined_lk_mlt')
             /\ witnesses'[n].multiplicity = unwrap(combined_lk_mlt')]_vars

\* C10 happens: after finalization an opcode assignment failed while every
\* name already had its table witness.
Witness_C10 ==
    /\ is_some(combined_lk_mlt)
    /\ IsOp(last_call, "assign_opcode_circuit")
    /\ last_call.result = "panic"
    /\ TableWitnessNames(witnesses) # {}
    /\ \E t \in ROMTypes : unwrap(combined_lk_mlt)[t] # EmptyMap

\* C5: a call that puts a name into a registry map that already holds the
\* name fails: registration in ZKVMConstraintSystem (one map for opcode and
\* table circuits) and in ZKVMFixedTraces panics, and so does an assignment
\* that reaches the insert in ZKVMWitnesses (one map for opcode and table
\* witnesses); an assignment that fails before its insert fails all the same.
Thm_C5 ==
    [][/\ ((IsOp(last_call', "cs_register_opcode_circuit")
              \/ IsOp(last_call', "cs_register_table_circuit"))
            /\ last_call'.name \in DOMAIN circuit_css)
          => last_call'.result = "panic"
       /\ ((IsOp(last_call', "ft_register_opcode_circuit")
              \/ IsOp(last_call', "ft_register_table_circuit"))
            /\ last_call'.name \in DOMAIN circuit_fixed_traces)
          => last_call'.result = "panic"
       /\ ((IsOp(last_call', "assign_opcode_circuit")
              \/ IsOp(last_call', "assign_table_circuit"))
            /\ last_call'.name \in DOMAIN witnesses)
          => last_call'.result \in {"panic", "err"}]_vars

\* C5 happens: a table circuit was assigned under a name that had a witness,
\* with the constraint system and the fixed trace of the name registered,
\* and the panic came from the insert.
Witness_C5 ==
    /\ IsOp(last_call, "assign_table_circuit")
    /\ last_call.result = "panic"
    /\ is_some(combined_lk_mlt)
    /\ last_call.name \in DOMAIN circuit_css
    /\ last_call.name \in DOMAIN circuit_fixed_traces
    /\ last_call.name \in DOMAIN witnesses

\* C8: get_vk returns the verifying keys of exactly the names of the proving
\* key, each with the constraint system the proving key holds under the
\* name, and leaves the proving key as it was.
Thm_C8 ==
    [][IsOp(last_call', "get_vk") =>
          /\ circuit_pks' = circuit_pks
          /\ is_some(circuit_vks')
          /\ LET vks == unwrap(circuit_vks').circuit_vks
             IN  /\ DOMAIN vks = DOMAIN circuit_pks
                 /\ \A name \in DOMAIN circuit_pks :
                       vks[name].cs = circuit_pks[name].vk.cs]_vars

\* C8 happens: the verifying key of a proving key with two circuits, one
\* with a fixed trace and one without, was taken.
Witness_C8 ==
    /\ IsOp(last_call, "get_vk")
    /\ is_some(circuit_vks)
    /\ Cardinality(DOMAIN circuit_pks) >= 2
    /\ \E n, m \in DOMAIN circuit_pks :
          /\ is_some(circuit_pks[n].fixed_traces)
          /\ is_none(circuit_pks[m].fixed_traces)
          /\ circuit_pks[n].vk.cs # circuit_pks[m].vk.cs

Cex_C11 ==
    [][\A n \in DOMAIN circuit_css :
          /\ n \in DOMAIN circuit_css'
          /\ circuit_css'[n] = circuit_css[n]]_vars

\* ======================================================================
\* UInt<M, C, E>: the limb arithmetic gadget (uint/arithmetic.rs)
\* ======================================================================

\* The limb width C of UInt<M, C, E>, in bits.
C == 2
\* The widest type: M ranges over C..MaxM.
MaxM == 4

RECURSIVE Pow2(_)
Pow2(n) == IF n = 0 THEN 1 ELSE 2 * Pow2(n - 1)

Max(x, y) == IF x >= y THEN x ELSE y

\* const POW_OF_C: usize = 2_usize.pow(C as u32)
POW_OF_C == Pow2(C)
\* const LIMB_BIT_MASK: u64 = (1 << C) - 1
LIMB_BIT_MASK == Pow2(C) - 1
\* Self::NUM_CELLS, the number of limbs: ceil(M / C).
NUM_CELLS == (M + C - 1) \div C
MaxCells == (MaxM + C - 1) \div C

\* The base field. The code runs over Goldilocks (p = 2^64 - 2^32 + 1), in
\* which none of the limb identities of a UInt of up to 16-bit limbs wraps:
\* p exceeds both NUM_CELLS * (2^C - 1)^2 + 2^C (a convolution with its carry)
\* and 2^C * 2^C + 2^C (a carry times POW_OF_C, with a limb). The model keeps
\* that relation: its modulus is the least prime above both.
IsPrime(p) == p > 1 /\ \A d \in 2..(p - 1) : p % d # 0
FieldFloor ==
    Max(MaxCells * LIMB_BIT_MASK * LIMB_BIT_MASK + POW_OF_C + 1,
        POW_OF_C * POW_OF_C + POW_OF_C)
Modulus ==
    CHOOSE p \in FieldFloor..(2 * FieldFloor) :
        IsPrime(p) /\ \A q \in FieldFloor..(p - 1) : ~IsPrime(q)
\* The canonical value of an integer as a field element.
F(x) == x % Modulus

\* What a limb can hold, and what a witness cell under a C-bit range check is
\* drawn from: the values in range and POW_OF_C, the least value out of it.
LimbValues == 0..LIMB_BIT_MASK
CellValues == 0..POW_OF_C
SeqsOf(S, n) == [1..n -> S]

\* assert_ux::<_, _, C>(expr): the lookup of expr in the C-bit range table.
assert_ux(expr) == F(expr) < POW_OF_C

\* The carry cells create_carry_witin allocates: NUM_CELLS of them with
\* overflow, NUM_CELLS - 1 without.
carries_len(overflow) == IF overflow THEN NUM_CELLS ELSE NUM_CELLS - 1
\* ... and their range checks.
create_carry_witin(carries) == \A i \in DOMAIN carries : assert_ux(carries[i])

\* carries.get(i): the cell's value, and whether there is one (limbs and
\* carries count from 1 here, from 0 in the code).
carries_get(carries, i) == IF i \in DOMAIN carries THEN Some(carries[i]) ELSE None

\* The registries, which the gadget leaves alone.
registry_vars == <<circuit_css, circuit_fixed_traces, witnesses, lk_mlts,
                   combined_lk_mlt, circuit_pks, circuit_vks>>

\* ------------------------------------------------------------ internal_add
\* internal_add's limb expression without the carry-in term.
internal_add_limb_no_carry_in(addend1, addend2, carries, i) ==
    LET next_carry == carries_get(carries, i)
    IN  F(addend1[i] + addend2[i]
          - (IF is_some(next_carry) THEN unwrap(next_carry) * POW_OF_C ELSE 0))

\* The limb expression of limb i, evaluated on the row:
\* c[i] = a[i] + b[i] + carry[i-1] - carry[i] * 2 ^ C.
internal_add_limb(addend1, addend2, carries, i) ==
    LET carry == IF i > 1 THEN carries_get(carries, i - 1) ELSE None
        next_carry == carries_get(carries, i)
    IN  F(addend1[i] + addend2[i]
          + (IF is_some(carry) THEN unwrap(carry) ELSE 0)
          - (IF is_some(next_carry) THEN unwrap(next_carry) * POW_OF_C ELSE 0))

\* internal_add without the assert_ux of the limb expressions.
internal_add_limbs_unchecked(addend1, addend2, carries) ==
    [limbs |-> [i \in 1..NUM_CELLS |->
                  internal_add_limb(addend1, addend2, carries, i)],
     carries |-> carries,
     satisfied |-> create_carry_witin(carries)]

\* internal_add(cb, addend1, addend2, with_overflow) on a row whose carry
\* cells hold carries: the limbs of the UInt returned, its carry cells, and
\* whether the row satisfies the constraints the call registered.
internal_add(addend1, addend2, carries) ==
    LET limbs == [i \in 1..NUM_CELLS |->
                    internal_add_limb(addend1, addend2, carries, i)]
    IN  [limbs |-> limbs,
         carries |-> carries,
         satisfied |-> /\ create_carry_witin(carries)
                       /\ \A i \in 1..NUM_CELLS : assert_ux(limbs[i])]

\* self.add(name_fn, cb, addend, with_overflow)
add ==
    /\ uint_c = None
    /\ "b" \in DOMAIN witness_values
    /\ LET c == internal_add(witness_values.a, witness_values.b,
                             witness_values.carries)
       IN  uint_c' = Some([op |-> "add", addend2 |-> witness_values.b,
                           limbs |-> c.limbs, carries |-> c.carries,
                           satisfied |-> c.satisfied])
    /\ last_call' = Outcome("add", M, "ok")
    /\ UNCHANGED <<registry_vars, M, with_overflow, witness_values, uints,
                 circuit_builder>>

\* The limbs of the constant: (b >> (C * i)) & LIMB_BIT_MASK for the i-th,
\* b the canonical u64 of the field element.
b_limbs(constant) ==
    LET b == F(constant)
    IN  [i \in 1..NUM_CELLS |-> (b \div Pow2(C * (i - 1))) % (LIMB_BIT_MASK + 1)]

\* self.add_const(name_fn, cb, constant, with_overflow), constant an
\* Expression::Constant.
add_const(constant) ==
    /\ uint_c = None
    /\ "b" \notin DOMAIN witness_values
    /\ "c" \notin DOMAIN witness_values
    /\ LET c == internal_add(witness_values.a, b_limbs(constant),
                             witness_values.carries)
       IN  uint_c' = Some([op |-> "add_const", addend2 |-> b_limbs(constant),
                           limbs |-> c.limbs, carries |-> c.carries,
                           satisfied |-> c.satisfied])
    /\ last_call' = Outcome("add_const", M, "ok")
    /\ UNCHANGED <<registry_vars, M, with_overflow, witness_values, uints,
                 circuit_builder>>

\* The constants add_const is given: every value of the type and the least
\* one above them.
Constants == 0..Pow2(C * NUM_CELLS)

\* The rows of an addition: uint_a, uint_b (not for add_const) and the carry
\* cells, in the order the cells are allocated.
AddRows ==
    [a : SeqsOf(LimbValues, NUM_CELLS), b : SeqsOf(LimbValues, NUM_CELLS),
     carries : SeqsOf(CellValues, carries_len(with_overflow))]
    \cup
    [a : SeqsOf(LimbValues, NUM_CELLS),
     carries : SeqsOf(CellValues, carries_len(with_overflow))]

RegistryDefault ==
    /\ circuit_css = EmptyMap
    /\ circuit_fixed_traces = EmptyMap
    /\ witnesses = EmptyMap
    /\ lk_mlts = EmptyMap
    /\ combined_lk_mlt = None
    /\ circuit_pks = EmptyMap
    /\ circuit_vks = None
    /\ last_call = Outcome("default", 0, "ok")

\* Addition: any type, any row, either flag; then the gadget is built and
\* evaluated on the row.
InitAdd ==
    /\ RegistryDefault
    /\ M \in C..MaxM
    /\ with_overflow \in BOOLEAN
    /\ witness_values \in AddRows
    /\ uint_c = None
    /\ BuilderDefault

NextAdd ==
    \/ add
    \/ \E constant \in Constants : add_const(constant)

SpecAdd == InitAdd /\ [][NextAdd]_vars

\* ------------------------------------------------------------ internal_mul
\* UInt::new(name, cb): a UInt of fresh witness cells, each range-checked
\* into [0, 2^C).
UInt_new(limbs) == \A i \in DOMAIN limbs : assert_ux(limbs[i])

\* create_expr(u): an operand that is an expression gets fresh cells
\* (witin, Some) constrained equal to its expressions, and these are its
\* limbs from then on; a materialized operand is left as it is.
create_expr(limbs, witin) ==
    IF is_some(witin)
    THEN [expr |-> unwrap(witin),
          satisfied |-> \A i \in DOMAIN limbs : F(unwrap(witin)[i]) = F(limbs[i])]
    ELSE [expr |-> limbs, satisfied |-> TRUE]

\* mul_terms setting entry i + j to the product instead of adding to it.
RECURSIVE mul_terms_overwrite(_, _, _, _, _)
mul_terms_overwrite(a_expr, b_expr, i, j, result_c) ==
    IF j > Len(b_expr) THEN result_c
    ELSE LET idx == i + j - 1
         IN  mul_terms_overwrite(a_expr, b_expr, i, j + 1,
                IF idx <= NUM_CELLS
                THEN IF idx \notin DOMAIN result_c
                     THEN Append(result_c, a_expr[i] * b_expr[j])
                     ELSE [result_c EXCEPT ![idx] = a_expr[i] * b_expr[j]]
                ELSE result_c)

\* b_expr.iter().enumerate().for_each(|(j, b)| ..) for one i, from j on:
\* the product a[i] * b[j] is pushed to result_c when i + j has no entry yet
\* and added to entry i + j when it has, if i + j < NUM_CELLS.
RECURSIVE mul_terms(_, _, _, _, _)
mul_terms(a_expr, b_expr, i, j, result_c) ==
    IF j > Len(b_expr) THEN result_c
    ELSE LET idx == i + j - 1
         IN  mul_terms(a_expr, b_expr, i, j + 1,
                IF idx <= NUM_CELLS
                THEN IF idx \notin DOMAIN result_c
                     THEN Append(result_c, a_expr[i] * b_expr[j])
                     ELSE [result_c EXCEPT ![idx] = @ + a_expr[i] * b_expr[j]]
                ELSE result_c)

\* a_expr.iter().enumerate().for_each(|(i, a)| ..), from i on: the products
\* of a[i], then the carries of result_c[i].
RECURSIVE mul_result(_, _, _, _, _)
mul_result(a_expr, b_expr, carries, i, result_c) ==
    IF i > Len(a_expr) THEN result_c
    ELSE LET terms == mul_terms(a_expr, b_expr, i, 1, result_c)
             carry == IF i > 1 THEN carries_get(carries, i - 1) ELSE None
             next_carry == carries_get(carries, i)
             with_carry ==
                 [terms EXCEPT ![i] =
                    @ + (IF is_some(carry) THEN unwrap(carry) ELSE 0)
                      - (IF is_some(next_carry)
                         THEN unwrap(next_carry) * POW_OF_C ELSE 0)]
         IN  mul_result(a_expr, b_expr, carries, i + 1, with_carry)

\* internal_mul(cb, multiplier, with_overflow) on a row whose cells of c hold
\* limbs and whose carry cells hold carries: the UInt c returned and whether
\* the row satisfies the constraints registered.
internal_mul(a, b, limbs, carries) ==
    LET result_c == mul_result(a.expr, b.expr, carries, 1, <<>>)
    IN  [limbs |-> limbs,
         carries |-> carries,
         satisfied |->
            /\ UInt_new(limbs)
            /\ create_carry_witin(carries)
            /\ a.satisfied
            /\ b.satisfied
            /\ \A i \in 1..Len(limbs) :
                  i \in DOMAIN result_c => F(limbs[i]) = F(result_c[i])]

\* self.mul(name_fn, cb, multiplier, with_overflow)
mul ==
    /\ uint_c = None
    /\ "c" \in DOMAIN witness_values
    /\ LET a == create_expr(witness_values.a, map_get(witness_values, "a_witin"))
           b == create_expr(witness_values.b, map_get(witness_values, "b_witin"))
           c == internal_mul(a, b, witness_values.c, witness_values.carries)
       IN  uint_c' = Some([op |-> "mul", a_expr |-> a.expr, b_expr |-> b.expr,
                           limbs |-> c.limbs, carries |-> c.carries,
                           satisfied |-> c.satisfied])
    /\ last_call' = Outcome("mul", M, "ok")
    /\ UNCHANGED <<registry_vars, M, with_overflow, witness_values, uints,
                 circuit_builder>>

\* The rows of a multiplication of two materialized UInts: uint_a, uint_b,
\* the cells of c and the carry cells.
MulRows ==
    [a : SeqsOf(LimbValues, NUM_CELLS), b : SeqsOf(LimbValues, NUM_CELLS),
     c : SeqsOf(CellValues, NUM_CELLS),
     carries : SeqsOf(CellValues, carries_len(with_overflow))]

InitMul ==
    /\ RegistryDefault
    /\ M \in C..MaxM
    /\ with_overflow \in BOOLEAN
    /\ witness_values \in MulRows
    /\ uint_c = None
    /\ BuilderDefault

NextMul == mul

SpecMul == InitMul /\ [][NextMul]_vars

\* ------------------------------------------------- UInt<M, 8, E>: the bytes
\* The gadgets of impl UInt<M, 8, E> work on byte limbs. The model builds
\* them at the limb width C it builds the others at, a byte being a C-bit
\* limb: the top bit 1 << 7 = 128 of a byte is MSB, the top bit of a limb.
MSB == Pow2(C - 1)

\* a & b on the bits of two limbs.
RECURSIVE BitAnd(_, _)
BitAnd(x, y) ==
    IF x = 0 \/ y = 0 THEN 0
    ELSE (x % 2) * (y % 2) + 2 * BitAnd(x \div 2, y \div 2)

\* F::from(x).invert().unwrap(): the inverse of a field element other than 0.
Inv(x) == CHOOSE y \in 0..(Modulus - 1) : F(x * y) = 1

\* lookup_and_byte(res, a, b): (a, b, res) is a row of the AND table, which
\* holds a & b for every pair of bytes.
lookup_and_byte(res, a, b) ==
    /\ F(a) < POW_OF_C
    /\ F(b) < POW_OF_C
    /\ F(res) = BitAnd(F(a), F(b))

\* lookup_ltu_limb8(res, a, b): (a, b, res) is a row of the LTU table, which
\* holds 1 for the pairs of bytes with a < b and 0 for the others.
lookup_ltu_limb8(res, a, b) ==
    /\ F(a) < POW_OF_C
    /\ F(b) < POW_OF_C
    /\ F(res) = IF F(a) < F(b) THEN 1 ELSE 0

\* assert_bit(expr): expr * (expr - 1) = 0.
assert_bit(expr) == F(expr * (expr - 1)) = 0

\* ----------------------------------------------------------- msb_decompose
\* self.msb_decompose(cb) on a row whose high_limb_mask cell holds
\* high_limb_no_msb: the MsbConfig returned (the msb cell is created from its
\* expression and holds its value) and whether the row satisfies the lookup.
msb_decompose(limbs, high_limb_no_msb) ==
    LET high_limb == limbs[NUM_CELLS]
        inv_128 == Inv(MSB)
    IN  [msb |-> F((high_limb - high_limb_no_msb) * inv_128),
         high_limb_no_msb |-> high_limb_no_msb,
         satisfied |-> lookup_and_byte(high_limb_no_msb, high_limb, MSB)]

\* a.msb_decompose(cb) as a call of its own.
msb_decompose_call ==
    /\ uint_c = None
    /\ DOMAIN witness_values = {"a", "high_limb_no_msb"}
    /\ LET c == msb_decompose(witness_values.a, witness_values.high_limb_no_msb)
       IN  uint_c' = Some([op |-> "msb_decompose", msb |-> c.msb,
                           high_limb_no_msb |-> c.high_limb_no_msb,
                           satisfied |-> c.satisfied])
    /\ last_call' = Outcome("msb_decompose", M, "ok")
    /\ UNCHANGED <<registry_vars, M, with_overflow, witness_values, uints,
                 circuit_builder>>

\* The rows of an msb_decompose: the UInt and the high_limb_mask cell.
MsbRows ==
    [a : SeqsOf(LimbValues, NUM_CELLS), high_limb_no_msb : CellValues]

InitMsb ==
    /\ RegistryDefault
    /\ M \in C..MaxM
    /\ with_overflow = FALSE
    /\ witness_values \in MsbRows
    /\ uint_c = None
    /\ BuilderDefault

NextMsb == msb_decompose_call

SpecMsb == InitMsb /\ [][NextMsb]_vars

\* --------------------------------------------------------------- ltu_limb8
\* The fold of a sequence of field elements from Expression::from(0): the
\* sum of the entries from index i on.
RECURSIVE SumFrom(_, _)
SumFrom(s, i) == IF i > Len(s) THEN 0 ELSE s[i] + SumFrom(s, i + 1)

\* The same fold with the accumulation run from the low end: the sum of the
\* entries up to index i.
ltu_acc_from_low(indexes, i) == SumFrom(indexes, 1) - SumFrom(indexes, i + 1)

\* si: indexes.iter().rev().scan(0, ..) reversed back, cells created from
\* these expressions: entry i is the sum of indexes[i..].
ltu_acc(indexes, i) == SumFrom(indexes, i)

\* self.ltu_limb8(cb, rhs) on a row whose index cells hold indexes, whose
\* byte_diff_inverse cell holds byte_diff_inv and whose is_ltu cell holds
\* is_ltu: the UIntLtuConfig returned (acc_indexes, lhs_ne_byte and
\* rhs_ne_byte are cells created from their expressions and hold their
\* values) and whether the row satisfies the constraints registered.
ltu_limb8(lhs, rhs, indexes, byte_diff_inv, is_ltu) ==
    LET n_bytes == NUM_CELLS
        index_sum == SumFrom(indexes, 1)
        si == [i \in 1..n_bytes |-> F(ltu_acc(indexes, i))]
        sa == SumFrom([i \in 1..n_bytes |-> lhs[i] * indexes[i]], 1)
        sb == SumFrom([i \in 1..n_bytes |-> rhs[i] * indexes[i]], 1)
        lhs_ne_byte == F(sa)
        rhs_ne_byte == F(sb)
        index_ne == si[1]
    IN  [byte_diff_inv |-> byte_diff_inv,
         indexes |-> indexes,
         acc_indexes |-> si,
         lhs_ne_byte |-> lhs_ne_byte,
         rhs_ne_byte |-> rhs_ne_byte,
         is_ltu |-> is_ltu,
         satisfied |->
            \* bit assert
            /\ \A i \in 1..n_bytes : assert_bit(indexes[i])
            /\ assert_bit(index_sum)
            \* byte diff zero check
            /\ \A i \in 1..n_bytes :
                  F(lhs[i] - rhs[i] - si[i] * lhs[i] + si[i] * rhs[i]) = 0
            \* byte inverse check
            /\ F(lhs_ne_byte * byte_diff_inv - rhs_ne_byte * byte_diff_inv
                 - index_ne) = 0
            /\ lookup_ltu_limb8(is_ltu, lhs_ne_byte, rhs_ne_byte)]

\* a.ltu_limb8(cb, &b) as a call of its own.
ltu_limb8_call ==
    /\ uint_c = None
    /\ DOMAIN witness_values = {"a", "b", "indexes", "byte_diff_inv", "is_ltu"}
    /\ LET c == ltu_limb8(witness_values.a, witness_values.b,
                          witness_values.indexes, witness_values.byte_diff_inv,
                          witness_values.is_ltu)
       IN  uint_c' = Some([op |-> "ltu_limb8"] @@ c)
    /\ last_call' = Outcome("ltu_limb8", M, "ok")
    /\ UNCHANGED <<registry_vars, M, with_overflow, witness_values, uints,
                 circuit_builder>>

\* What a cell under a bit constraint or a table's output is drawn from: the
\* bits and 2, the least value that is none. And a cell under no constraint
\* of its own: any field element.
BitCellValues == 0..2
FieldValues == 0..(Modulus - 1)

\* The rows of an ltu_limb8: the two UInts, the index cells, the
\* byte_diff_inverse cell and the is_ltu cell.
LtuRows ==
    [a : SeqsOf(LimbValues, NUM_CELLS), b : SeqsOf(LimbValues, NUM_CELLS),
     indexes : SeqsOf(BitCellValues, NUM_CELLS),
     byte_diff_inv : FieldValues, is_ltu : BitCellValues]

InitLtu ==
    /\ RegistryDefault
    /\ M \in C..MaxM
    /\ with_overflow = FALSE
    /\ witness_values \in LtuRows
    /\ uint_c = None
    /\ BuilderDefault

NextLtu == ltu_limb8_call

SpecLtu == InitLtu /\ [][NextLtu]_vars

\* ---------------------------------------------------------------- lt_limb8
\* cb.is_equal(lhs, rhs) on a row whose two cells hold is_eq and diff_inv:
\* is_eq * (lhs - rhs) = 0 and (lhs - rhs) * diff_inv = 1 - is_eq.
cb_is_equal(lhs, rhs, is_eq, diff_inv) ==
    /\ F(is_eq * (lhs - rhs)) = 0
    /\ F((lhs - rhs) * diff_inv - (1 - is_eq)) = 0

\* self.lt_limb8(cb, rhs) on a row whose is_lt cell holds is_lt, whose two
\* high_limb_mask cells hold lhs_no_msb and rhs_no_msb and whose is_ltu cell
\* holds is_ltu: what the UIntLtConfig returned holds there, and whether the
\* row satisfies the constraints registered for some values of the cells
\* left (index, byte_diff_inverse, and the two cells of cb.is_equal).
lt_limb8(lhs, rhs, is_lt, lhs_no_msb, rhs_no_msb, is_ltu) ==
    LET lhs_msb == msb_decompose(lhs, lhs_no_msb)
        rhs_msb == msb_decompose(rhs, rhs_no_msb)
        lhs_limbs == [lhs EXCEPT ![NUM_CELLS] = lhs_msb.high_limb_no_msb]
        rhs_limbs == [rhs EXCEPT ![NUM_CELLS] = rhs_msb.high_limb_no_msb]
    IN  [lhs_msb |-> lhs_msb,
         rhs_msb |-> rhs_msb,
         is_ltu |-> is_ltu,
         is_lt |-> is_lt,
         satisfied |->
            /\ assert_bit(is_lt)
            /\ lhs_msb.satisfied
            /\ rhs_msb.satisfied
            \* (1) ltu(a_{<s}, b_{<s})
            /\ \E indexes \in SeqsOf(BitCellValues, NUM_CELLS),
                  byte_diff_inv \in FieldValues :
                  ltu_limb8(lhs_limbs, rhs_limbs, indexes, byte_diff_inv,
                            is_ltu).satisfied
            \* (2) lt(a, b) = a_s * (1 - b_s) + eq(a_s, b_s) * ltu(..)
            /\ \E msb_is_equal \in BitCellValues, msb_diff_inv \in FieldValues :
                  /\ cb_is_equal(lhs_msb.msb, rhs_msb.msb, msb_is_equal,
                                 msb_diff_inv)
                  /\ F(lhs_msb.msb - lhs_msb.msb * rhs_msb.msb
                       + msb_is_equal * is_ltu - is_lt) = 0]

\* a.lt_limb8(cb, &b)
lt_limb8_call ==
    /\ uint_c = None
    /\ "is_lt" \in DOMAIN witness_values
    /\ LET c == lt_limb8(witness_values.a, witness_values.b,
                         witness_values.is_lt, witness_values.lhs_no_msb,
                         witness_values.rhs_no_msb, witness_values.is_ltu)
       IN  uint_c' = Some([op |-> "lt_limb8"] @@ c)
    /\ last_call' = Outcome("lt_limb8", M, "ok")
    /\ UNCHANGED <<registry_vars, M, with_overflow, witness_values, uints,
                 circuit_builder>>

\* The rows of an lt_limb8: the two UInts, the is_lt cell, the two
\* high_limb_mask cells and the is_ltu cell.
LtRows ==
    [a : SeqsOf(LimbValues, NUM_CELLS), b : SeqsOf(LimbValues, NUM_CELLS),
     is_lt : BitCellValues, lhs_no_msb : CellValues, rhs_no_msb : CellValues,
     is_ltu : BitCellValues]

InitLt ==
    /\ RegistryDefault
    /\ M \in C..MaxM
    /\ with_overflow = FALSE
    /\ witness_values \in LtRows
    /\ uint_c = None
    /\ BuilderDefault

NextLt == lt_limb8_call

SpecLt == InitLt /\ [][NextLt]_vars

\* ---------------------------------------------------------------------- C12
\* The integer a little-endian limb vector encodes.
RECURSIVE ValueOf(_)
ValueOf(limbs) ==
    IF limbs = <<>> THEN 0
    ELSE limbs[1] + POW_OF_C * ValueOf(Tail(limbs))

\* The carry out of limb i in the schoolbook addition of a and b.
RECURSIVE TrueCarry(_, _, _)
TrueCarry(a, b, i) ==
    IF i = 0 THEN 0
    ELSE (a[i] + b[i] + TrueCarry(a, b, i - 1)) \div POW_OF_C

IsAddition(c) == is_some(c) /\ unwrap(c).op \in {"add", "add_const"}
\* In range, read the narrowest way: every limb below 2^C and the value
\* below 2^M.
InRange(limbs) ==
    /\ \A i \in DOMAIN limbs : limbs[i] \in LimbValues
    /\ ValueOf(limbs) < Pow2(M)
HoldsTrueCarries(a, b, carries) ==
    \A i \in DOMAIN carries : carries[i] = TrueCarry(a, b, i)

Cex_C13 ==
    (IsAddition(uint_c) /\ ~with_overflow
       /\ InRange(witness_values.a) /\ InRange(unwrap(uint_c).addend2)
       /\ ValueOf(witness_values.a) + ValueOf(unwrap(uint_c).addend2) > Pow2(M) - 1)
    => \E carries \in SeqsOf(CellValues, carries_len(FALSE)) :
          LET c == internal_add(witness_values.a, unwrap(uint_c).addend2, carries)
          IN  /\ c.satisfied
              /\ ValueOf(c.limbs) =
                   (ValueOf(witness_values.a) + ValueOf(unwrap(uint_c).addend2))
                     % Pow2(M)

\* ---------------------------------------------------------------------- C14
\* C14: add keeps NUM_CELLS carry cells with with_overflow and NUM_CELLS - 1
\* without, and on every row that satisfies the constraints the last of the
\* NUM_CELLS carries is 1 if a + b exceeds 2^M - 1 and 0 if not.
Cex_C14 ==
    IsAddition(uint_c) =>
        LET c == unwrap(uint_c)
            sum == ValueOf(witness_values.a) + ValueOf(c.addend2)
        IN  /\ Len(c.carries) = IF with_overflow THEN NUM_CELLS ELSE NUM_CELLS - 1
            /\ (with_overflow /\ c.satisfied
                  /\ InRange(witness_values.a) /\ InRange(c.addend2)) =>
                 c.carries[NUM_CELLS] = IF sum > Pow2(M) - 1 THEN 1 ELSE 0

\* ---------------------------------------------------------------------- C15
\* C15: addition is sound in the carries: a row whose carry cells are not
\* the true carries of a + b fails a constraint of add, so the rows that
\* satisfy them all hold one and the same carry assignment.
Thm_C15 ==
    (IsAddition(uint_c) /\ unwrap(uint_c).satisfied)
    => HoldsTrueCarries(witness_values.a, unwrap(uint_c).addend2,
                        unwrap(uint_c).carries)

\* A row with every carry cell in range and the first one wrong (0 where the
\* limbs carry), which add rejects.
Witness_C15 ==
    /\ IsAddition(uint_c)
    /\ NUM_CELLS = 2
    /\ TrueCarry(witness_values.a, unwrap(uint_c).addend2, 1) = 1
    /\ unwrap(uint_c).carries[1] = 0
    /\ create_carry_witin(unwrap(uint_c).carries)
    /\ ~unwrap(uint_c).satisfied

\* ---------------------------------------------------------------------- C16
IsMul(c) == is_some(c) /\ unwrap(c).op = "mul"

\* The sum of a[i] * b[j] over the pairs with i + j = k (counted from 0),
\* here over i <= n.
RECURSIVE ConvUpTo(_, _, _, _)
ConvUpTo(a, b, k, n) ==
    IF n = 0 THEN 0
    ELSE (IF k + 1 - n \in DOMAIN b THEN a[n] * b[k + 1 - n] ELSE 0)
         + ConvUpTo(a, b, k, n - 1)
Conv(a, b, k) == ConvUpTo(a, b, k, Len(a))

\* C16: mul constrains every limb k of c to the sum of the a[i] * b[j] with
\* i + j = k, each once, plus carry[k-1] minus carry[k] * 2^C (no carry[-1],
\* carry[last] only with with_overflow): the rows that satisfy mul are the
\* rows with the cells in range on which these identities hold, the rows
\* with carries above 1 among them.
Thm_C16 ==
    IsMul(uint_c) =>
        LET c == unwrap(uint_c)
        IN  /\ Len(c.limbs) = NUM_CELLS
            /\ Len(c.carries) = IF with_overflow THEN NUM_CELLS ELSE NUM_CELLS - 1
            /\ c.satisfied <=>
                 /\ \A k \in 1..NUM_CELLS : c.limbs[k] \in LimbValues
                 /\ \A k \in DOMAIN c.carries : c.carries[k] \in LimbValues
                 /\ \A k \in 1..NUM_CELLS :
                       c.limbs[k] =
                         Conv(c.a_expr, c.b_expr, k)
                         + (IF k > 1 THEN c.carries[k - 1] ELSE 0)
                         - (IF k \in DOMAIN c.carries
                            THEN c.carries[k] * POW_OF_C ELSE 0)

\* A multiplication the constraints accept whose second limb sums two
\* products and whose carries are above 1.
Witness_C16 ==
    /\ IsMul(uint_c)
    /\ unwrap(uint_c).satisfied
    /\ NUM_CELLS = 2
    /\ unwrap(uint_c).a_expr[1] * unwrap(uint_c).b_expr[2] > 0
    /\ unwrap(uint_c).a_expr[2] * unwrap(uint_c).b_expr[1] > 0
    /\ \A k \in DOMAIN unwrap(uint_c).carries : unwrap(uint_c).carries[k] > 1
    /\ with_overflow

\* ---------------------------------------------------------------------- C17
\* C17: with with_overflow the products a[i] * b[j] with i + j >= NUM_CELLS
\* are certified at the top carry: whenever in-range a and b multiply to
\* more than 2^M - 1, every row that satisfies mul has its last carry
\* cell at 1.
Cex_C17 ==
    (IsMul(uint_c) /\ with_overflow /\ unwrap(uint_c).satisfied
       /\ InRange(unwrap(uint_c).a_expr) /\ InRange(unwrap(uint_c).b_expr)
       /\ ValueOf(unwrap(uint_c).a_expr) * ValueOf(unwrap(uint_c).b_expr)
            > Pow2(M) - 1)
    => unwrap(uint_c).carries[NUM_CELLS] = 1

\* ---------------------------------------------------------------------- C19
IsMsb(c) == is_some(c) /\ unwrap(c).op = "msb_decompose"

\* C19: msb_decompose constrains high_limb_no_msb to high_limb & 0x7F (the
\* limb without its top bit) and msb to (high_limb - high_limb_no_msb) / 128:
\* on every row that satisfies it msb is the top bit of the top limb, 0 or
\* 1, and high_limb_no_msb the bits below it.
Cex_C19 ==
    (IsMsb(uint_c) /\ unwrap(uint_c).satisfied) =>
        LET high_limb == witness_values.a[NUM_CELLS]
        IN  /\ unwrap(uint_c).high_limb_no_msb = BitAnd(high_limb, MSB - 1)
            /\ unwrap(uint_c).high_limb_no_msb = high_limb % MSB
            /\ unwrap(uint_c).msb \in {0, 1}
            /\ unwrap(uint_c).msb = high_limb \div MSB

\* ---------------------------------------------------------------------- C18
IsLtu(c) == is_some(c) /\ unwrap(c).op = "ltu_limb8"

\* Some row of ltu_limb8 on lhs and rhs satisfies it with is_ltu at bit.
LtuSatisfiable(lhs, rhs, bit) ==
    \E indexes \in SeqsOf(BitCellValues, NUM_CELLS), inv \in FieldValues :
        ltu_limb8(lhs, rhs, indexes, inv, bit).satisfied

\* The highest limb where a and b differ, 0 if there is none.
HighestDiff(a, b) ==
    IF a = b THEN 0
    ELSE CHOOSE i \in DOMAIN a :
            a[i] # b[i] /\ \A j \in DOMAIN a : j > i => a[j] = b[j]

\* C18: for all byte-limb vectors a and b some row satisfies ltu_limb8; on
\* every row that does, is_ltu is 1 if a < b as unsigned integers and 0 if
\* not, the limb marked is the highest limb where a and b differ, and none
\* is marked when a = b; so exactly one of ltu(a, b), a = b, ltu(b, a)
\* holds. (What depends on a and b alone is stated where the other cells of
\* the row are 0: a and b are any two limb vectors there.)
Thm_C18 ==
    IsLtu(uint_c) =>
        LET c == unwrap(uint_c)
            a == witness_values.a
            b == witness_values.b
        IN  /\ c.satisfied =>
                 /\ c.is_ltu = IF ValueOf(a) < ValueOf(b) THEN 1 ELSE 0
                 /\ \A i \in 1..NUM_CELLS :
                       c.indexes[i] = IF i = HighestDiff(a, b) THEN 1 ELSE 0
            /\ (c.is_ltu = 0 /\ c.byte_diff_inv = 0
                  /\ \A i \in 1..NUM_CELLS : c.indexes[i] = 0) =>
                 /\ LtuSatisfiable(a, b, 0) \/ LtuSatisfiable(a, b, 1)
                 /\ \/ LtuSatisfiable(a, b, 1) /\ a # b /\ ~LtuSatisfiable(b, a, 1)
                    \/ ~LtuSatisfiable(a, b, 1) /\ a = b /\ ~LtuSatisfiable(b, a, 1)
                    \/ ~LtuSatisfiable(a, b, 1) /\ a # b /\ LtuSatisfiable(b, a, 1)

\* Two limbs that differ in both limbs, the lower one the other way round
\* than the higher: the row marks the higher limb and is accepted.
Witness_C18 ==
    /\ IsLtu(uint_c)
    /\ unwrap(uint_c).satisfied
    /\ NUM_CELLS = 2
    /\ witness_values.a[2] < witness_values.b[2]
    /\ witness_values.a[1] > witness_values.b[1]
    /\ unwrap(uint_c).indexes = <<0, 1>>
    /\ unwrap(uint_c).is_ltu = 1

\* ---------------------------------------------------------------------- C20
IsLt(c) == is_some(c) /\ unwrap(c).op = "lt_limb8"

\* The two's-complement value of a limb vector: its top bit is the sign.
SignedValueOf(limbs) ==
    IF limbs[Len(limbs)] >= MSB
    THEN ValueOf(limbs) - Pow2(C * Len(limbs))
    ELSE ValueOf(limbs)

\* C20: lt_limb8 constrains is_lt, a bit, to
\* a_msb * (1 - b_msb) + eq(a_msb, b_msb) * ltu(a_without_msb, b_without_msb):
\* on every row that satisfies it is_lt is 1 if a < b as two's-complement
\* integers and 0 if not.
Cex_C20 ==
    (IsLt(uint_c) /\ unwrap(uint_c).satisfied) =>
        unwrap(uint_c).is_lt =
            IF SignedValueOf(witness_values.a) < SignedValueOf(witness_values.b)
            THEN 1 ELSE 0

\* ======================================================================
\* Faults of the circuit builder while a gadget is constructed
\* ======================================================================

\* enum ZKVMError, by variant.
ZKVMError ==
    {"CircuitError", "UtilError", "WitnessNotFound", "VKNotFound",
     "FixedTraceNotFound", "VerifyError"}

\* n times the same entry.
Rep(n, x) == [i \in 1..n |-> x]

\* A call of the builder a gadget makes, and what the gadget does with the
\* Result: "?" hands an Err to the caller (the ? operator, try_for_each, or
\* collect into a Result), "unwrap" panics on it.
BuilderCall(call, on_err) == [call |-> call, on_err |-> on_err]

\* The builder calls of internal_add, in the order made: create_carry_witin,
\* then an assert_ux for every limb.
internal_add_calls ==
    <<BuilderCall("create_carry_witin", "?")>>
    \o Rep(NUM_CELLS, BuilderCall("assert_ux", "?"))

\* ... of the closure create_expr on an operand: none when it is cell-backed.
create_expr_calls(is_expr) ==
    IF is_expr
    THEN <<BuilderCall("replace_limbs_with_witin", "?")>>
         \o Rep(NUM_CELLS, BuilderCall("require_equal", "?"))
    ELSE <<>>

\* ... of internal_mul: UInt::new, create_carry_witin, create_expr of the two
\* operands, then the require_equal of every limb of c, each unwrapped.
internal_mul_calls(a_is_expr, b_is_expr) ==
    <<BuilderCall("UInt::new", "?"), BuilderCall("create_carry_witin", "?")>>
    \o create_expr_calls(a_is_expr)
    \o create_expr_calls(b_is_expr)
    \o Rep(NUM_CELLS, BuilderCall("require_equal", "unwrap"))

\* ... of eq: a require_equal for every limb.
eq_calls == Rep(NUM_CELLS, BuilderCall("require_equal", "?"))

\* ... of UInt::is_equal: cb.is_equal for every limb, the sum_flag cell, and
\* cb.is_equal of the sum.
is_equal_calls ==
    Rep(NUM_CELLS, BuilderCall("is_equal", "?"))
    \o <<BuilderCall("create_witin_from_expr", "?"),
         BuilderCall("is_equal", "?")>>

\* ... of msb_decompose.
msb_decompose_calls ==
    <<BuilderCall("create_witin", "?"), BuilderCall("lookup_and_byte", "?"),
      BuilderCall("create_witin_from_expr", "?")>>

\* ... of ltu_limb8.
ltu_limb8_calls ==
    Rep(NUM_CELLS, BuilderCall("create_witin", "?"))
    \o Rep(NUM_CELLS, BuilderCall("assert_bit", "?"))
    \o <<BuilderCall("assert_bit", "?"), BuilderCall("create_witin", "?")>>
    \o Rep(NUM_CELLS, BuilderCall("create_witin_from_expr", "?"))
    \o Rep(NUM_CELLS, BuilderCall("require_zero", "?"))
    \o <<BuilderCall("create_witin_from_expr", "?"),
         BuilderCall("create_witin_from_expr", "?"),
         BuilderCall("require_zero", "?"),
         BuilderCall("create_witin", "?"),
         BuilderCall("lookup_ltu_limb8", "?")>>

\* ... of lt_limb8.
lt_limb8_calls ==
    <<BuilderCall("create_witin", "?"), BuilderCall("assert_bit", "?")>>
    \o msb_decompose_calls
    \o msb_decompose_calls
    \o ltu_limb8_calls
    \o <<BuilderCall("is_equal", "?"), BuilderCall("require_zero", "?")>>

\* A gadget built on a builder whose k-th call returns Err(error), the calls
\* before it Ok: the gadget returns that Err where the call is under "?" and
\* panics where it is unwrapped. calls are the builder calls the gadget makes.
gadget_with_fault(op, calls) ==
    /\ uint_c = None
    /\ \E k \in DOMAIN calls, error \in ZKVMError :
          /\ uint_c' = Some([op |-> op, call |-> calls[k].call, at |-> k,
                             error |-> error,
                             returned |-> IF calls[k].on_err = "?"
                                          THEN Some(error) ELSE None])
          /\ last_call' = Outcome(op, M, IF calls[k].on_err = "?"
                                         THEN "err" ELSE "panic")
    /\ UNCHANGED <<registry_vars, M, with_overflow, witness_values, uints,
                 circuit_builder>>

\* Any type, either flag; no row: the faults are those of construction.
InitFault ==
    /\ RegistryDefault
    /\ M \in C..MaxM
    /\ with_overflow \in BOOLEAN
    /\ witness_values = <<>>
    /\ uint_c = None
    /\ BuilderDefault

\* Each gadget with one failing builder call, and the two registrations with
\* a failing construct_circuit.
NextFault ==
    \/ gadget_with_fault("add", internal_add_calls)
    \/ gadget_with_fault("add_const", internal_add_calls)
    \/ \E a_is_expr \in BOOLEAN, b_is_expr \in BOOLEAN :
          gadget_with_fault("mul", internal_mul_calls(a_is_expr, b_is_expr))
    \/ gadget_with_fault("eq", eq_calls)
    \/ gadget_with_fault("is_equal", is_equal_calls)
    \/ gadget_with_fault("ltu_limb8", ltu_limb8_calls)
    \/ gadget_with_fault("lt_limb8", lt_limb8_calls)
    \/ \E oc \in OpcodeCircuits : cs_register_opcode_circuit(oc, FALSE)
    \/ \E tc \in TableCircuits : cs_register_table_circuit(tc, FALSE)

SpecFault == InitFault /\ [][NextFault]_vars

\* ---------------------------------------------------------------------- C21
\* C21: whenever a builder call made inside add, add_const, mul, eq,
\* is_equal, ltu_limb8 or lt_limb8 returns an error, the gadget returns that
\* same error to its caller, and register_opcode_circuit and
\* register_table_circuit hand an error of construct_circuit to their caller:
\* no call that meets a fault ends in a panic.
Cex_C21 ==
    last_call.op # "default" =>
        /\ last_call.result = "err"
        /\ is_some(uint_c) => unwrap(uint_c).returned = Some(unwrap(uint_c).error)

\* ======================================================================
\* The state of a UInt's limbs: UintLimb::WitIn or UintLimb::Expression
\* ======================================================================

\* The most UInts built on one builder.
MaxUInts == 4

\* A UInt as the builder session holds it: limbs is the variant of UintLimb
\* ("WitIn": each limb an owned cell; "Expression": each limb an expression),
\* carries the number of its carry cells, if it has any.
UIntOf(limbs, carries) == [limbs |-> limbs, carries |-> carries]

\* u.is_expr()
is_expr(u) == u.limbs = "Expression"

\* u.replace_limbs_with_witin(name, cb): the limbs become fresh cells.
replace_limbs_with_witin(u) == [u EXCEPT !.limbs = "WitIn"]

\* create_expr allocating and constraining whatever the operand's state is.
create_expr_cells_always(u) == NUM_CELLS

\* The closure create_expr of internal_mul on operand u: the cells it
\* allocates, which is also the number of new_witin_equal_expr constraints it
\* registers (izip!(u.expr(), existing_expr), one per limb) ...
create_expr_cells(u) == IF is_expr(u) THEN NUM_CELLS ELSE 0

\* ... and the state it leaves the operand in.
create_expr_state(u) == IF is_expr(u) THEN replace_limbs_with_witin(u) ELSE u

\* UInt::new(name, cb): NUM_CELLS fresh cells, the limbs of a new UInt.
new_uint ==
    /\ Len(uints) < MaxUInts
    /\ uints' = Append(uints, UIntOf("WitIn", None))
    /\ circuit_builder' =
          [circuit_builder EXCEPT !.num_witin = @ + NUM_CELLS]
    /\ uint_c' = Some([op |-> "new", c |-> Len(uints) + 1])
    /\ last_call' = Outcome("new", M, "ok")
    /\ UNCHANGED <<registry_vars, M, with_overflow, witness_values>>

\* internal_add on the builder: c is new_as_empty(), gets its carry cells
\* and limbs that are expressions; self and the addend are behind & and stay.
uint_internal_add(op, self, addend, overflow) ==
    /\ Len(uints) < MaxUInts
    /\ uints' = Append(uints, UIntOf("Expression", Some(carries_len(overflow))))
    /\ circuit_builder' =
          [circuit_builder EXCEPT !.num_witin = @ + carries_len(overflow)]
    /\ uint_c' = Some([op |-> op, self |-> self, other |-> addend,
                       with_overflow |-> overflow, c |-> Len(uints) + 1])
    /\ last_call' = Outcome(op, M, "ok")
    /\ UNCHANGED <<registry_vars, M, with_overflow, witness_values>>

\* uints[self].add(name_fn, cb, &uints[addend], overflow)
uint_add(self, addend, overflow) ==
    uint_internal_add("add", Some(self), Some(addend), overflow)

\* uints[self].add_const(name_fn, cb, constant, overflow)
uint_add_const(self, overflow) ==
    uint_internal_add("add_const", Some(self), None, overflow)

\* uints[self].mul(name_fn, cb, &mut uints[multiplier], overflow): c is
\* UInt::new with its carry cells, then create_expr(self) and
\* create_expr(multiplier). The two are distinct objects (&mut).
uint_mul(self, multiplier, overflow) ==
    /\ Len(uints) < MaxUInts
    /\ self # multiplier
    /\ LET a == uints[self]
           b == uints[multiplier]
           c == UIntOf("WitIn", Some(carries_len(overflow)))
       IN  /\ uints' = Append([uints EXCEPT ![self] = create_expr_state(a),
                                             ![multiplier] = create_expr_state(b)],
                              c)
           /\ circuit_builder' =
                 [num_witin |-> circuit_builder.num_witin + NUM_CELLS
                                + carries_len(overflow)
                                + create_expr_cells(a) + create_expr_cells(b),
                  new_witin_equal_expr |->
                      circuit_builder.new_witin_equal_expr
                      + create_expr_cells(a) + create_expr_cells(b)]
    /\ uint_c' = Some([op |-> "mul", self |-> Some(self),
                       other |-> Some(multiplier),
                       with_overflow |-> overflow, c |-> Len(uints) + 1])
    /\ last_call' = Outcome("mul", M, "ok")
    /\ UNCHANGED <<registry_vars, M, with_overflow, witness_values>>

\* A builder session: any type, a fresh builder; then UInts are made and
\* combined, as the tests of mod mul_add do.
InitLimbs ==
    /\ RegistryDefault
    /\ M \in C..MaxM
    /\ with_overflow = FALSE
    /\ witness_values = <<>>
    /\ uint_c = None
    /\ BuilderDefault

NextLimbs ==
    \/ new_uint
    \/ \E self \in DOMAIN uints, addend \in DOMAIN uints, overflow \in BOOLEAN :
          uint_add(self, addend, overflow)
    \/ \E self \in DOMAIN uints, overflow \in BOOLEAN :
          uint_add_const(self, overflow)
    \/ \E self \in DOMAIN uints, multiplier \in DOMAIN uints,
          overflow \in BOOLEAN :
          uint_mul(self, multiplier, overflow)

SpecLimbs == InitLimbs /\ [][NextLimbs]_vars

\* ---------------------------------------------------------------------- C22
\* The operands of the call the step made that were derived before it.
DerivedOperands ==
    LET call == unwrap(uint_c')
    IN  {k \in DOMAIN uints :
            /\ "self" \in DOMAIN call
            /\ Some(k) \in {call.self, call.other}
            /\ is_expr(uints[k])}

\* C22: UInt limb state moves only from derived to materialized. add and
\* add_const return a derived result and leave every UInt's state as it was;
\* mul turns each derived operand into a materialized one, with NUM_CELLS
\* fresh cells and NUM_CELLS equality constraints for it and none for a
\* materialized operand, and returns a materialized result; no step turns a
\* materialized UInt into a derived one.
Thm_C22 ==
    [][LET call == unwrap(uint_c')
           c == uints'[Len(uints')]
           before == SubSeq(uints', 1, Len(uints))
       IN  /\ Len(uints') = Len(uints) + 1
           /\ \A k \in DOMAIN uints : ~is_expr(uints[k]) => ~is_expr(uints'[k])
           /\ call.op \in {"add", "add_const"} =>
                 /\ is_expr(c)
                 /\ before = uints
                 /\ circuit_builder'.new_witin_equal_expr
                       = circuit_builder.new_witin_equal_expr
           /\ call.op = "mul" =>
                 /\ ~is_expr(c)
                 /\ \A k \in DOMAIN uints :
                       IF Some(k) \in {call.self, call.other}
                       THEN ~is_expr(uints'[k])
                            /\ uints'[k].carries = uints[k].carries
                       ELSE uints'[k] = uints[k]
                 /\ circuit_builder'.new_witin_equal_expr
                       = circuit_builder.new_witin_equal_expr
                         + NUM_CELLS * Cardinality(DerivedOperands)
                 /\ circuit_builder'.num_witin
                       = circuit_builder.num_witin
                         + NUM_CELLS + carries_len(call.with_overflow)
                         + NUM_CELLS * Cardinality(DerivedOperands)]_vars

\* mul was called on a derived and a materialized operand: the first is
\* materialized now, under its equality constraints, and a derived UInt that
\* was no operand is still derived.
Witness_C22 ==
    /\ is_some(uint_c)
    /\ unwrap(uint_c).op = "mul"
    /\ circuit_builder.new_witin_equal_expr = NUM_CELLS
    /\ is_some(uints[unwrap(unwrap(uint_c).self)].carries)
    /\ ~is_expr(uints[unwrap(unwrap(uint_c).self)])
    /\ \E k \in DOMAIN uints : is_expr(uints[k])

\* ---------------------------------------------------------------------- C23
\* C23: in ltu_limb8, for every limb index i, if limb i is not the marked
\* limb (indexes[i] = 0) then every satisfying row has a[i] = b[i]: a and b
\* differ at the marked limb only.
Cex_C23 ==
    IsLtu(uint_c) /\ unwrap(uint_c).satisfied =>
        \A i \in 1..NUM_CELLS :
            unwrap(uint_c).indexes[i] = 0 =>
                witness_values.a[i] = witness_values.b[i]

\* C23, amended: in ltu_limb8, for every limb index i, if neither limb i nor
\* a limb above it is marked (acc_indexes[i] = 0) then every satisfying row
\* has a[i] = b[i]: a and b differ at the marked limb and may differ at the
\* limbs below it, and at no limb above it.
Thm_C23 ==
    IsLtu(uint_c) /\ unwrap(uint_c).satisfied =>
        LET c == unwrap(uint_c)
            a == witness_values.a
            b == witness_values.b
        IN  /\ \A i \in 1..NUM_CELLS :
                  c.acc_indexes[i] = 0 => a[i] = b[i]
            /\ \A i \in 1..NUM_CELLS :
                  c.indexes[i] = 1 =>
                     /\ a[i] # b[i]
                     /\ \A j \in (i + 1)..NUM_CELLS : a[j] = b[j]

\* A satisfying row with the lowest of two limbs marked: the limbs above it
\* hold the same value, other than 0, in a and in b.
Witness_C23 ==
    /\ IsLtu(uint_c)
    /\ unwrap(uint_c).satisfied
    /\ NUM_CELLS = 2
    /\ unwrap(uint_c).indexes = <<1, 0>>
    /\ unwrap(uint_c).acc_indexes = <<1, 0>>
    /\ witness_values.a[2] = witness_values.b[2]
    /\ witness_values.a[2] > 0
    /\ witness_values.a[1] > witness_values.b[1]

\* ======================================================================
\* UInt::is_equal
\* ======================================================================

\* The fold of the flags with the first one left out.
sum_expr_from_second(is_equal_per_limb) == SumFrom(is_equal_per_limb, 2)

\* sum_expr: is_equal_per_limb.iter().fold(Expression::from(0), ..), the sum
\* of the per-limb flags.
sum_expr(is_equal_per_limb) == SumFrom(is_equal_per_limb, 1)

\* self.is_equal(cb, rhs) on a row whose is_eq cells of the limbs hold
\* is_equal_per_limb and whose last is_eq cell holds is_eq: what the
\* IsEqualConfig returned holds there (sum_flag is a cell created from
\* sum_expr and holds its value), and whether the row satisfies the
\* constraints registered for some values of the diff_inverse cells.
is_equal(lhs, rhs, is_equal_per_limb, is_eq) ==
    LET n_limbs == NUM_CELLS
        sum_flag == F(sum_expr(is_equal_per_limb))
    IN  [is_equal_per_limb |-> is_equal_per_limb,
         sum_flag |-> sum_flag,
         is_equal |-> is_eq,
         satisfied |->
            /\ \A i \in 1..n_limbs :
                  \E diff_inv \in FieldValues :
                     cb_is_equal(lhs[i], rhs[i], is_equal_per_limb[i], diff_inv)
            /\ \E diff_inv \in FieldValues :
                  cb_is_equal(sum_flag, n_limbs, is_eq, diff_inv)]

\* a.is_equal(cb, &b)
is_equal_call ==
    /\ uint_c = None
    /\ DOMAIN witness_values = {"a", "b", "is_equal_per_limb", "is_equal"}
    /\ LET c == is_equal(witness_values.a, witness_values.b,
                         witness_values.is_equal_per_limb,
                         witness_values.is_equal)
       IN  uint_c' = Some([op |-> "is_equal"] @@ c)
    /\ last_call' = Outcome("is_equal", M, "ok")
    /\ UNCHANGED <<registry_vars, M, with_overflow, witness_values, uints,
                   circuit_builder>>

\* The rows of an is_equal: the two UInts and the is_eq cells.
IsEqualRows ==
    [a : SeqsOf(LimbValues, NUM_CELLS), b : SeqsOf(LimbValues, NUM_CELLS),
     is_equal_per_limb : SeqsOf(BitCellValues, NUM_CELLS),
     is_equal : BitCellValues]

InitIsEqual ==
    /\ RegistryDefault
    /\ M \in C..MaxM
    /\ with_overflow = FALSE
    /\ witness_values \in IsEqualRows
    /\ uint_c = None
    /\ BuilderDefault

NextIsEqual == is_equal_call

SpecIsEqual == InitIsEqual /\ [][NextIsEqual]_vars

\* ---------------------------------------------------------------------- C24
IsIsEqual(c) == is_some(c) /\ unwrap(c).op = "is_equal"

\* C24: for UInt::is_equal on two materialized UInts, on every row that
\* satisfies the constraints the is_equal cell is 1 if all NUM_CELLS limb
\* pairs are equal and 0 otherwise, and is_equal_per_limb[i] is 1 exactly
\* when a[i] = b[i]; the rows with these flags do satisfy them.
Thm_C24 ==
    IsIsEqual(uint_c) =>
        LET c == unwrap(uint_c)
            a == witness_values.a
            b == witness_values.b
            flags == [i \in 1..NUM_CELLS |-> IF a[i] = b[i] THEN 1 ELSE 0]
            flag == IF a = b THEN 1 ELSE 0
        IN  c.satisfied <=> (c.is_equal_per_limb = flags /\ c.is_equal = flag)

\* A satisfying row of two UInts that agree in their low limb and differ in
\* their high limb.
Witness_C24 ==
    /\ IsIsEqual(uint_c)
    /\ unwrap(uint_c).satisfied
    /\ NUM_CELLS = 2
    /\ witness_values.a[1] = witness_values.b[1]
    /\ witness_values.a[2] # witness_values.b[2]
    /\ unwrap(uint_c).is_equal_per_limb = <<1, 0>>
    /\ unwrap(uint_c).is_equal = 0

====
